---- MODULE Spec2Model ----
(***************************************************************************)
(* Model of the interface board firmware: the rotary encoder / button      *)
(* decoder (ButtonEncoder.h), the command handler and the hopper poll      *)
(* (Main.cpp).                                                             *)
(*                                                                         *)
(* Integer widths follow the AVR build: int8_t and uint8_t are kept modulo *)
(* 2^8.  The uint32_t microsecond clock is kept as two 16-bit limbs        *)
(* <<hi, lo>> (value hi * 2^16 + lo), with carry and borrow written out.   *)
(***************************************************************************)
EXTENDS Integers, Sequences, FiniteSets, TLC

(***************************************************************************)
(* Bounds of the model.                                                    *)
(***************************************************************************)
\* full quadrature cycles driven in SpecClean
MaxCycles == 130
\* clock advances and button interrupts in SpecButton
MaxTicks == 3
MaxBtnIsr == 4
\* pending events of a kind at which the interrupts of Spec stop
MaxPending == 1
\* pending events of a kind at which the interrupts of SpecDecoder stop
MaxUndrained == 2

(***************************************************************************)
(* Fixed-width arithmetic.                                                 *)
(***************************************************************************)
\* conversion of an int to uint8_t
ToUint8(x) == x % 256

\* conversion of an int to int8_t (avr-gcc: reduction modulo 2^8)
ToInt8(x) == LET m == x % 256 IN IF m >= 128 THEN m - 256 ELSE m

\* bitwise or of two bytes
RECURSIVE BitOr(_, _)
BitOr(a, b) ==
    IF a = 0 THEN b
    ELSE IF b = 0 THEN a
    ELSE (IF a % 2 = 1 \/ b % 2 = 1 THEN 1 ELSE 0)
         + 2 * BitOr(a \div 2, b \div 2)

\* Arduino's min(a, b) macro
Min(a, b) == IF a < b THEN a ELSE b

\* uint32_t values are pairs <<hi, lo>> of 16-bit limbs
Limb == 65536

\* a - b on uint32_t (modulo 2^32), with the borrow between the limbs
Sub32(a, b) ==
    LET lo == a[2] - b[2]
        borrow == IF lo < 0 THEN 1 ELSE 0
    IN  <<(a[1] - b[1] - borrow) % Limb, lo % Limb>>

\* a + b on uint32_t (modulo 2^32), with the carry between the limbs
Add32(a, b) ==
    LET lo == a[2] + b[2]
        carry == lo \div Limb
    IN  <<(a[1] + b[1] + carry) % Limb, lo % Limb>>

\* a > k for a uint32_t a and a uint16_t k promoted to uint32_t
Gt32(a, k) == a[1] > 0 \/ a[2] > k

\* a >= k
Ge32(a, k) == a[1] > 0 \/ a[2] >= k

\* a < b, both uint32_t
Lt32(a, b) == a[1] < b[1] \/ (a[1] = b[1] /\ a[2] < b[2])

\* real elapsed time, not reduced modulo 2^32: the high limb is unbounded
AddTrue(a, b) ==
    LET lo == a[2] + b[2]
    IN  <<a[1] + b[1] + lo \div Limb, lo % Limb>>

TrueLt(a, k) == a[1] = 0 /\ a[2] < k

TrueGt(a, k) == a[1] > 0 \/ a[2] > k

\* the elapsed time is below 2^32 microseconds
Below32(a) == a[1] < Limb

(***************************************************************************)
(* Config.h, Main.cpp: constants.                                          *)
(***************************************************************************)
DEBOUNCE_TIME_US == 5000

hopper_threshold == 20

\* struct Commands
GET_LAST_MEASUREMENT == 128

GET_LAST_STATUS == 129

\* bytes of the output buffer handed to processCommand
BufLen == 4

(***************************************************************************)
(* State.                                                                  *)
(***************************************************************************)
VARIABLES
    \* ButtonEncoder::encoder_isr statics and ButtonEncoder::encoder_detents
    prev_reading, encoder_value, encoder_detents,
    \* ButtonEncoder::button_isr statics and ButtonEncoder::button_presses
    previous_state, prev_edge_time, button_presses,
    \* level of STATUS_PIN (the event signal to the host)
    status_pin,
    \* return values of process_button() / process_encoder()
    ret_button, ret_encoder,
    \* Main.cpp: hopper_empty, measure_hopper's static previous_hopper_empty,
    \* measurement[2], and the position of loop() inside measure_hopper
    hopper_empty, previous_hopper_empty, measurement, pcHop,
    \* processCommand: its position inside the GET_LAST_STATUS case, the
    \* output buffer and the cmd_result returned
    pcCmd, dataout, result,
    \* micros(): the free-running microsecond clock
    clock,
    \* history: last operation, encoder interrupts served, drains made,
    \* direction of rotation driven in SpecClean
    op, nEnc, nDrain, dir,
    \* history of the button line: real time since the last level change
    \* (since boot before the first), clock advances and button interrupts
    \* so far, and the level changes seen, each with the real time since
    \* the previous one, its direction and whether it was counted
    since, nTick, nBtn, edges,
    \* history of the drains: process_encoder() has run and no encoder
    \* interrupt came since; the same for process_button()
    quietEnc, quietBtn,
    \* history of the requests: the arguments of the last request and the
    \* counters and flag it found
    req, snap,
    \* history of the events: presses and net detents counted by the
    \* interrupt handlers and not yet returned to a caller, and whether one
    \* was counted after the status handler's clear and before the return
    \* of its second drain
    owed_presses, owed_detents, win,
    \* presses counted since the last drain of the press counter
    fresh,
    \* history of the responses in SpecFlag: the sensor-empty flag the most
    \* recent status response carried (false before the first response)
    delivered,
    \* history of the decoder in SpecGlitch: the stored reading and the
    \* tracked position found by each of the last two encoder interrupts
    trail

encVars  == <<prev_reading, encoder_value, encoder_detents>>
btnVars  == <<previous_state, prev_edge_time, button_presses>>
encHist  == <<nEnc, nDrain, dir>>
btnHist  == <<since, nTick, nBtn, edges>>
quiet    == <<quietEnc, quietBtn>>
hopVars  == <<hopper_empty, previous_hopper_empty, measurement, pcHop>>
cmdVars  == <<pcCmd, dataout, result>>
reqHist  == <<req, snap>>
owed     == <<owed_presses, owed_detents, win, fresh>>
late     == <<delivered, trail>>
vars == <<encVars, btnVars, status_pin, ret_button, ret_encoder, hopVars,
          cmdVars, clock, op, encHist, btnHist, quiet, reqHist, owed,
          late>>

(***************************************************************************)
(* Main.cpp: the event signal.                                             *)
(***************************************************************************)
assert_interrupt_pin == status_pin' = TRUE

clear_interrupt_pin == status_pin' = FALSE

(***************************************************************************)
(* ButtonEncoder.h: the quadrature decoder.                                *)
(***************************************************************************)
\* the classic lookup table, which maps invalid transitions to 0
table_classic ==
    <<0, -1, 1, 0, 1, 0, 0, -1, -1, 0, 0, 1, 0, 1, -1, 0>>

\* the table with the two directions swapped
table_reversed ==
    <<0, 1, -1, 2, -1, 0, 2, 1, 1, -2, 0, -1, -2, -1, 1, 0>>

\* the table with the sign of the entry for the step 3 -> 0 changed
table_asym ==
    <<0, -1, 1, 2, 1, 0, 2, -1, -1, -2, 0, 1, 2, 1, -1, 0>>

\* static const int8_t table[] PROGMEM, indexed from 0 in the source
table ==
    <<0, -1, 1, 2, 1, 0, 2, -1, -1, -2, 0, 1, -2, 1, -1, 0>>

\* pgm_read_byte(&table[key]): the table entry as an unsigned byte
pgm_read_byte(key) == ToUint8(table[key + 1])

\* digitalRead(pina) << 1 | digitalRead(pinb)
Reading(pina, pinb) == pina * 2 + pinb

\* encoder_value += pgm_read_byte(&table[prev_reading << 2 | reading])
EncoderSum(reading) ==
    ToInt8(encoder_value + pgm_read_byte(prev_reading * 4 + reading))

\* the handler with > 4 and < -4 as the detent thresholds
encoder_isr_gt(pina, pinb) ==
    LET reading == Reading(pina, pinb)
        v == EncoderSum(reading)
    IN  /\ prev_reading' = reading
        /\ IF v > 4
           THEN /\ encoder_detents' = ToInt8(encoder_detents + 1)
                /\ encoder_value' = ToInt8(v - 4)
                /\ assert_interrupt_pin
           ELSE IF v < -4
           THEN /\ encoder_detents' = ToInt8(encoder_detents - 1)
                /\ encoder_value' = ToInt8(v + 4)
                /\ assert_interrupt_pin
           ELSE /\ encoder_value' = v
                /\ UNCHANGED <<encoder_detents, status_pin>>

\* the handler counting a counter-clockwise detent without asserting the
\* status pin
encoder_isr_silent(pina, pinb) ==
    LET reading == Reading(pina, pinb)
        v == EncoderSum(reading)
    IN  /\ prev_reading' = reading
        /\ IF v >= 4
           THEN /\ encoder_detents' = ToInt8(encoder_detents + 1)
                /\ encoder_value' = ToInt8(v - 4)
                /\ assert_interrupt_pin
           ELSE IF v <= -4
           THEN /\ encoder_detents' = ToInt8(encoder_detents - 1)
                /\ encoder_value' = ToInt8(v + 4)
                /\ UNCHANGED status_pin
           ELSE /\ encoder_value' = v
                /\ UNCHANGED <<encoder_detents, status_pin>>

\* the interrupt handler, given the levels read on the two pins
encoder_isr(pina, pinb) ==
    LET reading == Reading(pina, pinb)
        v == EncoderSum(reading)
    IN  /\ prev_reading' = reading
        /\ IF v >= 4
           THEN /\ encoder_detents' = ToInt8(encoder_detents + 1)
                /\ encoder_value' = ToInt8(v - 4)
                /\ assert_interrupt_pin
           ELSE IF v <= -4
           THEN /\ encoder_detents' = ToInt8(encoder_detents - 1)
                /\ encoder_value' = ToInt8(v + 4)
                /\ assert_interrupt_pin
           ELSE /\ encoder_value' = v
                /\ UNCHANGED <<encoder_detents, status_pin>>

\* a drain that forgets to reset the counter
process_encoder_noreset ==
    /\ ret_encoder' = encoder_detents
    /\ UNCHANGED encoder_detents

\* int8_t process_encoder(void), one ATOMIC_BLOCK
process_encoder ==
    /\ ret_encoder' = encoder_detents
    /\ encoder_detents' = 0

(***************************************************************************)
(* ButtonEncoder.h: the button debounce.                                   *)
(***************************************************************************)
\* the debounce test as an absolute comparison, now > prev_edge_time + 5000
Debounced_sum(now) ==
    Lt32(Add32(prev_edge_time, <<0, DEBOUNCE_TIME_US>>), now)

\* the debounce test with >= in place of >
Debounced_ge(now) ==
    Ge32(Sub32(now, prev_edge_time), DEBOUNCE_TIME_US)

\* the debounce test on the absolute clock value, without the subtraction
Debounced_abs(now) ==
    Gt32(now, DEBOUNCE_TIME_US)

\* (now - prev_edge_time) > DEBOUNCE_TIME_US
Debounced(now) ==
    Gt32(Sub32(now, prev_edge_time), DEBOUNCE_TIME_US)

\* the handler stamping the time of every invocation, also of one that
\* reads the recorded level
button_isr_stamp(level, now) ==
    IF level = previous_state
    THEN /\ prev_edge_time' = now
         /\ UNCHANGED <<button_presses, previous_state, status_pin>>
    ELSE /\ IF Debounced(now) /\ previous_state
            THEN /\ button_presses' = ToUint8(button_presses + 1)
                 /\ assert_interrupt_pin
            ELSE UNCHANGED <<button_presses, status_pin>>
         /\ prev_edge_time' = now
         /\ previous_state' = ~previous_state

\* the handler counting a press without asserting the status pin
button_isr_silent(level, now) ==
    IF level = previous_state
    THEN UNCHANGED <<btnVars, status_pin>>
    ELSE /\ IF Debounced(now) /\ previous_state
            THEN button_presses' = ToUint8(button_presses + 1)
            ELSE UNCHANGED button_presses
         /\ UNCHANGED status_pin
         /\ prev_edge_time' = now
         /\ previous_state' = ~previous_state

\* the handler leaving prev_edge_time and previous_state alone when it
\* suppresses an edge
button_isr_keep(level, now) ==
    IF level = previous_state
    THEN UNCHANGED <<btnVars, status_pin>>
    ELSE IF Debounced(now)
    THEN /\ IF previous_state
            THEN /\ button_presses' = ToUint8(button_presses + 1)
                 /\ assert_interrupt_pin
            ELSE UNCHANGED <<button_presses, status_pin>>
         /\ prev_edge_time' = now
         /\ previous_state' = ~previous_state
    ELSE UNCHANGED <<btnVars, status_pin>>

\* the interrupt handler, given the level read on the button pin and the
\* value micros() returns
button_isr(level, now) ==
    IF level = previous_state
    THEN UNCHANGED <<btnVars, status_pin>>
    ELSE /\ IF Debounced(now) /\ previous_state
            THEN /\ button_presses' = ToUint8(button_presses + 1)
                 /\ assert_interrupt_pin
            ELSE UNCHANGED <<button_presses, status_pin>>
         /\ prev_edge_time' = now
         /\ previous_state' = ~previous_state

\* process_button that returns the count and leaves it in place
process_button_noreset ==
    /\ ret_button' = button_presses
    /\ UNCHANGED button_presses

\* uint8_t process_button(), one ATOMIC_BLOCK
process_button ==
    /\ ret_button' = button_presses
    /\ button_presses' = 0

(***************************************************************************)
(* Main.cpp: the command handler.                                          *)
(*                                                                         *)
(* The GET_LAST_STATUS case is taken in four steps (clear, process_button, *)
(* process_encoder, response) so that the pin change interrupts can be     *)
(* served between them; the two drains are ATOMIC_BLOCKs and are single    *)
(* steps.  The other cases touch nothing an interrupt handler touches and  *)
(* are single steps.  pcCmd is "returned" from the return of              *)
(* processCommand until the bus layer has sent the reply.                  *)
(***************************************************************************)
cmd_result(status, len) == [status |-> status, len |-> len]

\* no command has returned
NoResult == cmd_result("NONE", 0)

\* the output buffer as the bus layer hands it over
EmptyBuffer == [i \in 1..BufLen |-> 0]

\* GET_LAST_MEASUREMENT: len != 0 || maxLen < 4
MeasurementArgsInvalid(len, maxLen) == len # 0 \/ maxLen < 4

\* the length check of GET_LAST_STATUS off by one
StatusArgsInvalid_short(len, maxLen) == len # 0 \/ maxLen < 1

\* GET_LAST_STATUS: len != 0 || maxLen < 2
StatusArgsInvalid(len, maxLen) == len # 0 \/ maxLen < 2

\* the four bytes GET_LAST_MEASUREMENT writes
MeasurementBytes ==
    <<ToUint8(measurement[1] \div 256), ToUint8(measurement[1]),
      ToUint8(measurement[2] \div 256), ToUint8(measurement[2])>>

\* byte 0 with the press count masked to 7 bits instead of clamped
StatusByte0_mask(presses, flag) ==
    BitOr(presses % 128, IF flag THEN 128 ELSE 0)

\* dataout[0] = min(0x7F, button_presses); if (hopper_empty) |= 0x80
StatusByte0(presses, flag) ==
    LET b == Min(127, presses)
    IN  IF flag THEN BitOr(b, 128) ELSE b

\* dataout[1] = encoder_detents: int8_t stored into a uint8_t
StatusByte1(detents) == ToUint8(detents)

\* processCommand that also clears the event signal when it answers
\* GET_LAST_MEASUREMENT
processCommand_clears(cmd, len, maxLen) ==
    /\ pcCmd = "idle"
    /\ CASE cmd = GET_LAST_MEASUREMENT ->
              IF MeasurementArgsInvalid(len, maxLen)
              THEN /\ result' = cmd_result("INVALID_ARGUMENTS", 0)
                   /\ pcCmd' = "returned"
                   /\ UNCHANGED <<dataout, status_pin>>
              ELSE /\ dataout' = [i \in 1..BufLen |->
                                   IF i <= 4 THEN MeasurementBytes[i]
                                   ELSE dataout[i]]
                   /\ result' = cmd_result("COMMAND_OK", 4)
                   /\ pcCmd' = "returned"
                   /\ clear_interrupt_pin
         [] cmd = GET_LAST_STATUS ->
              IF StatusArgsInvalid(len, maxLen)
              THEN /\ result' = cmd_result("INVALID_ARGUMENTS", 0)
                   /\ pcCmd' = "returned"
                   /\ UNCHANGED <<dataout, status_pin>>
              ELSE /\ clear_interrupt_pin
                   /\ pcCmd' = "cleared"
                   /\ UNCHANGED <<dataout, result>>
         [] OTHER ->
              /\ result' = cmd_result("COMMAND_NOT_SUPPORTED", 0)
              /\ pcCmd' = "returned"
              /\ UNCHANGED <<dataout, status_pin>>

\* processCommand up to its return, or up to the clear of the status case
processCommand(cmd, len, maxLen) ==
    /\ pcCmd = "idle"
    /\ CASE cmd = GET_LAST_MEASUREMENT ->
              IF MeasurementArgsInvalid(len, maxLen)
              THEN /\ result' = cmd_result("INVALID_ARGUMENTS", 0)
                   /\ pcCmd' = "returned"
                   /\ UNCHANGED <<dataout, status_pin>>
              ELSE /\ dataout' = [i \in 1..BufLen |->
                                   IF i <= 4 THEN MeasurementBytes[i]
                                   ELSE dataout[i]]
                   /\ result' = cmd_result("COMMAND_OK", 4)
                   /\ pcCmd' = "returned"
                   /\ UNCHANGED status_pin
         [] cmd = GET_LAST_STATUS ->
              IF StatusArgsInvalid(len, maxLen)
              THEN /\ result' = cmd_result("INVALID_ARGUMENTS", 0)
                   /\ pcCmd' = "returned"
                   /\ UNCHANGED <<dataout, status_pin>>
              ELSE /\ clear_interrupt_pin
                   /\ pcCmd' = "cleared"
                   /\ UNCHANGED <<dataout, result>>
         [] OTHER ->
              /\ result' = cmd_result("COMMAND_NOT_SUPPORTED", 0)
              /\ pcCmd' = "returned"
              /\ UNCHANGED <<dataout, status_pin>>

\* uint8_t button_presses = encoder.process_button()
status_process_button ==
    /\ pcCmd = "cleared"
    /\ process_button
    /\ pcCmd' = "drainedButton"

\* int8_t encoder_detents = encoder.process_encoder()
status_process_encoder ==
    /\ pcCmd = "drainedButton"
    /\ process_encoder
    /\ pcCmd' = "drainedEncoder"

\* the response, with the event signal cleared once more after the drains
status_respond_clears ==
    /\ pcCmd = "drainedEncoder"
    /\ dataout' = [dataout EXCEPT ![1] = StatusByte0(ret_button, hopper_empty),
                                  ![2] = StatusByte1(ret_encoder)]
    /\ result' = cmd_result("COMMAND_OK", 2)
    /\ pcCmd' = "returned"
    /\ clear_interrupt_pin

\* dataout[0], dataout[1] and return cmd_result(Status::COMMAND_OK, 2)
status_respond ==
    /\ pcCmd = "drainedEncoder"
    /\ dataout' = [dataout EXCEPT ![1] = StatusByte0(ret_button, hopper_empty),
                                  ![2] = StatusByte1(ret_encoder)]
    /\ result' = cmd_result("COMMAND_OK", 2)
    /\ pcCmd' = "returned"
    /\ UNCHANGED status_pin

(***************************************************************************)
(* Main.cpp: measure_hopper, called from loop().  It runs in the           *)
(* foreground, so the command handler can be served between its            *)
(* statements: the store of the measurement (an ATOMIC_BLOCK), the         *)
(* assignment of hopper_empty, the comparison with the previous value and  *)
(* the assertion of the event signal are separate steps.  The locals on    *)
(* and off are read back from measurement[], which nothing else writes.    *)
(***************************************************************************)
\* on < off && (off - on) > hopper_threshold, giving HOPPER_FULL (HIGH)
HopperLevel(on, off) == on < off /\ (off - on) > hopper_threshold

measure_hopper_store(on, off) ==
    /\ pcHop = "idle"
    /\ measurement' = <<on, off>>
    /\ pcHop' = "stored"
    /\ UNCHANGED <<hopper_empty, previous_hopper_empty, status_pin>>

measure_hopper_classify ==
    /\ pcHop = "stored"
    /\ hopper_empty' = HopperLevel(measurement[1], measurement[2])
    /\ pcHop' = "classified"
    /\ UNCHANGED <<previous_hopper_empty, measurement, status_pin>>

\* the comparison that never stores the value it compared with
measure_hopper_compare_stale ==
    /\ pcHop = "classified"
    /\ pcHop' = IF hopper_empty # previous_hopper_empty THEN "changed"
                ELSE "idle"
    /\ UNCHANGED <<hopper_empty, previous_hopper_empty, measurement,
                   status_pin>>

\* the comparison signalling only a flag that became set
measure_hopper_compare_rising ==
    /\ pcHop = "classified"
    /\ IF hopper_empty /\ ~previous_hopper_empty
       THEN /\ previous_hopper_empty' = hopper_empty
            /\ pcHop' = "changed"
       ELSE /\ pcHop' = "idle"
            /\ previous_hopper_empty' = hopper_empty
    /\ UNCHANGED <<hopper_empty, measurement, status_pin>>

measure_hopper_compare ==
    /\ pcHop = "classified"
    /\ IF hopper_empty # previous_hopper_empty
       THEN /\ previous_hopper_empty' = hopper_empty
            /\ pcHop' = "changed"
       ELSE /\ pcHop' = "idle"
            /\ UNCHANGED previous_hopper_empty
    /\ UNCHANGED <<hopper_empty, measurement, status_pin>>

measure_hopper_signal ==
    /\ pcHop = "changed"
    /\ assert_interrupt_pin
    /\ pcHop' = "idle"
    /\ UNCHANGED <<hopper_empty, previous_hopper_empty, measurement>>

(***************************************************************************)
(* Initial state: the static initialisers.                                 *)
(***************************************************************************)
InitProgram ==
    /\ prev_reading = 3
    /\ encoder_value = 0
    /\ encoder_detents = 0
    /\ previous_state = TRUE
    /\ prev_edge_time = <<0, 0>>
    /\ button_presses = 0
    /\ status_pin = FALSE
    /\ ret_button = 0
    /\ ret_encoder = 0
    /\ hopper_empty = FALSE
    /\ previous_hopper_empty = FALSE
    /\ measurement = <<0, 0>>
    /\ pcHop = "idle"
    /\ pcCmd = "idle"
    /\ dataout = EmptyBuffer
    /\ result = NoResult
    /\ clock = <<0, 0>>

\* no request is being handled
NoRequest == <<0, 0, 0>>

NoSnapshot == [p |-> 0, d |-> 0, f |-> FALSE, n |-> 0]

InitHist ==
    /\ op = "init"
    /\ nEnc = 0
    /\ nDrain = 0
    /\ dir = 0
    /\ since = <<0, 0>>
    /\ nTick = 0
    /\ nBtn = 0
    /\ edges = <<>>
    /\ quietEnc = FALSE
    /\ quietBtn = FALSE
    /\ req = NoRequest
    /\ snap = NoSnapshot
    /\ owed_presses = 0
    /\ owed_detents = 0
    /\ win = FALSE
    /\ fresh = 0
    /\ delivered = FALSE
    /\ trail = <<>>

(***************************************************************************)
(* The environment: interrupts, time, calls of the drains.                 *)
(***************************************************************************)
\* the amounts of time that pass between interrupts: around the debounce
\* threshold, just below 2^32 and just above it
Gaps ==
    {<<0, 4999>>, <<0, 5000>>, <<0, 5001>>, <<65535, 65000>>, <<65536, 100>>}

\* half a period of the 32-bit clock
HalfPeriod == <<32768, 0>>

\* the status handler has cleared the event signal and its second drain
\* has not returned yet
InWindow == pcCmd \in {"cleared", "drainedButton"}

\* the detent an encoder interrupt on this reading counts: 1, -1 or 0
DetentStep(reading) ==
    IF EncoderSum(reading) >= 4 THEN 1
    ELSE IF EncoderSum(reading) <= -4 THEN -1 ELSE 0

\* time passes
Tick(G) ==
    /\ nTick < MaxTicks
    /\ \E dt \in G :
           /\ clock' = Add32(clock, dt)
           /\ since' = AddTrue(since, dt)
    /\ nTick' = nTick + 1
    /\ op' = "tick"
    /\ UNCHANGED <<encVars, btnVars, status_pin, ret_button, ret_encoder,
                   hopVars, cmdVars, encHist, nBtn, edges, quiet, reqHist,
                   owed>>
    /\ UNCHANGED late

\* time passes by half a clock period, without the history of the edges
Advance ==
    /\ clock' = Add32(clock, HalfPeriod)
    /\ op' = "tick"
    /\ UNCHANGED <<encVars, btnVars, status_pin, ret_button, ret_encoder,
                   hopVars, cmdVars, encHist, btnHist, quiet, reqHist, owed>>
    /\ UNCHANGED late

\* the pin change interrupt of the button line fires (PCINT0_vect)
ButtonInterrupt ==
    /\ nBtn < MaxBtnIsr
    /\ \E level \in BOOLEAN :
           /\ button_isr(level, clock)
           /\ IF level = previous_state
              THEN UNCHANGED <<since, edges>>
              ELSE /\ since' = <<0, 0>>
                   /\ edges' = Append(edges,
                          [gap |-> since,
                           last |-> prev_edge_time,
                           now |-> clock,
                           falling |-> previous_state,
                           counted |-> button_presses' # button_presses])
    /\ nBtn' = nBtn + 1
    /\ op' = "button_isr"
    /\ quietBtn' = FALSE
    /\ owed_presses' =
           IF button_presses' # button_presses THEN owed_presses + 1
           ELSE owed_presses
    /\ fresh' =
           IF button_presses' # button_presses THEN fresh + 1 ELSE fresh
    /\ win' = (win \/ (InWindow /\ button_presses' # button_presses))
    /\ UNCHANGED <<encVars, ret_button, ret_encoder, hopVars, cmdVars, clock,
                   encHist, nTick, quietEnc, reqHist, owed_detents>>
    /\ UNCHANGED late

\* the same without the history of the edges, while fewer than P presses
\* are pending
ButtonEvent(P) ==
    /\ button_presses < P
    /\ \E level \in BOOLEAN :
           button_isr(level, clock)
    /\ op' = "button_isr"
    /\ owed_presses' =
           IF button_presses' # button_presses THEN owed_presses + 1
           ELSE owed_presses
    /\ fresh' =
           IF button_presses' # button_presses THEN fresh + 1 ELSE fresh
    /\ win' = (win \/ (InWindow /\ button_presses' # button_presses))
    /\ quietBtn' = FALSE
    /\ UNCHANGED <<encVars, ret_button, ret_encoder, hopVars, cmdVars, clock,
                   encHist, btnHist, quietEnc, reqHist, owed_detents>>
    /\ UNCHANGED late

\* the pin change interrupt of an encoder line fires (PCINT1_vect, INT0)
\* while fewer than P detents are pending
EncoderInterrupt(P) ==
    /\ -P < encoder_detents
    /\ encoder_detents < P
    /\ \E pina \in 0..1, pinb \in 0..1 :
           /\ encoder_isr(pina, pinb)
           /\ owed_detents' = owed_detents + DetentStep(Reading(pina, pinb))
           /\ win' = (win \/ (InWindow /\ DetentStep(Reading(pina, pinb)) # 0))
    /\ op' = "encoder_isr"
    /\ quietEnc' = FALSE
    /\ UNCHANGED <<btnVars, ret_button, ret_encoder, hopVars, cmdVars, clock,
                   encHist, btnHist, quietBtn, reqHist, owed_presses, fresh>>
    /\ UNCHANGED late

\* process_encoder() is called on its own
DrainEncoder ==
    /\ process_encoder
    /\ op' = "process_encoder"
    /\ quietEnc' = TRUE
    /\ owed_detents' = owed_detents - ret_encoder'
    /\ UNCHANGED <<prev_reading, encoder_value, btnVars, status_pin,
                   ret_button, hopVars, cmdVars, clock, encHist, btnHist,
                   quietBtn, reqHist, owed_presses, win, fresh>>
    /\ UNCHANGED late

\* process_button() is called on its own
DrainButton ==
    /\ process_button
    /\ op' = "process_button"
    /\ quietBtn' = TRUE
    /\ owed_presses' = owed_presses - ret_button'
    /\ fresh' = 0
    /\ UNCHANGED <<encVars, previous_state, prev_edge_time, status_pin,
                   ret_encoder, hopVars, cmdVars, clock, encHist, btnHist,
                   quietEnc, reqHist, owed_detents, win>>
    /\ UNCHANGED late

\* the command codes sent: the two the firmware knows and one it does not
Commands == {GET_LAST_MEASUREMENT, GET_LAST_STATUS, 130}

\* the bus layer calls processCommand
Request(C, L, M) ==
    /\ \E cmd \in C, len \in L, maxLen \in M :
           /\ processCommand(cmd, len, maxLen)
           /\ req' = <<cmd, len, maxLen>>
    /\ snap' = [p |-> button_presses, d |-> encoder_detents,
                f |-> hopper_empty, n |-> fresh]
    /\ win' = FALSE
    /\ op' = "processCommand"
    /\ UNCHANGED <<encVars, btnVars, ret_button, ret_encoder, hopVars, clock,
                   encHist, btnHist, quiet, owed_presses, owed_detents,
                   fresh>>
    /\ UNCHANGED late

StatusDrainButton ==
    /\ status_process_button
    /\ op' = "status_process_button"
    /\ fresh' = 0
    /\ UNCHANGED <<encVars, previous_state, prev_edge_time, status_pin,
                   ret_encoder, hopVars, dataout, result, clock, encHist,
                   btnHist, quiet, reqHist, owed_presses, owed_detents, win>>
    /\ UNCHANGED late

StatusDrainEncoder ==
    /\ status_process_encoder
    /\ op' = "status_process_encoder"
    /\ UNCHANGED <<prev_reading, encoder_value, btnVars, status_pin,
                   ret_button, hopVars, dataout, result, clock, encHist,
                   btnHist, quiet, reqHist, owed>>
    /\ UNCHANGED late

\* the press count and the detent count a status response carries
PressField(b) == b % 128

DetentField(b) == IF b >= 128 THEN b - 256 ELSE b

\* the response is written and processCommand returns
StatusReturn ==
    /\ status_respond
    /\ op' = "status_respond"
    /\ owed_presses' = owed_presses - PressField(dataout'[1])
    /\ owed_detents' = owed_detents - DetentField(dataout'[2])
    /\ UNCHANGED <<encVars, btnVars, ret_button, ret_encoder, hopVars, clock,
                   encHist, btnHist, quiet, reqHist, win, fresh>>

StatusRespond ==
    /\ StatusReturn
    /\ UNCHANGED late

\* the sensor flag a status response carries: bit 7 of its first byte
FlagField(b) == b >= 128

\* the same step, with the flag the response carries noted
StatusRespondNoted ==
    /\ StatusReturn
    /\ delivered' = FlagField(dataout'[1])
    /\ UNCHANGED trail

\* the bus layer sends the reply and takes back the buffer; the locals of
\* processCommand are gone
BusReply ==
    /\ pcCmd = "returned"
    /\ pcCmd' = "idle"
    /\ dataout' = EmptyBuffer
    /\ result' = NoResult
    /\ ret_button' = 0
    /\ ret_encoder' = 0
    /\ op' = "reply"
    /\ req' = NoRequest
    /\ snap' = NoSnapshot
    /\ UNCHANGED <<encVars, btnVars, status_pin, hopVars, clock, encHist,
                   btnHist, quiet, owed>>
    /\ UNCHANGED late

StatusSteps == StatusDrainButton \/ StatusDrainEncoder \/ StatusRespond

\* loop() runs measure_hopper while no command is being handled
HopperStep(R) ==
    /\ pcCmd = "idle"
    /\ \/ \E m \in R : measure_hopper_store(m[1], m[2])
       \/ measure_hopper_classify
       \/ measure_hopper_compare
       \/ measure_hopper_signal
    /\ op' = "measure_hopper"
    /\ UNCHANGED <<encVars, btnVars, ret_button, ret_encoder, cmdVars, clock,
                   encHist, btnHist, quiet, reqHist, owed>>
    /\ UNCHANGED late

(***************************************************************************)
(* Spec: the firmware as a whole.  The interrupt handlers, the command     *)
(* handler and the hopper poll interleave.                                 *)
(***************************************************************************)
Init ==
    /\ InitProgram
    /\ InitHist

\* the hopper is polled, with a reading on either side of the threshold
AdcReadings == {<<100, 121>>, <<100, 120>>}

Poll == HopperStep(AdcReadings)

\* requests of every kind, well-formed and rejected
AnyCall == Request(Commands, {0}, {1, BufLen})

\* processCommand has returned and the bus layer is sending the reply, still
\* inside the I2C interrupt: no other interrupt is served until it is done
Replying == pcCmd = "returned"

EncoderIsr == ~Replying /\ EncoderInterrupt(MaxPending)

ButtonIsr == ~Replying /\ ButtonEvent(MaxPending)

Elapse == ~Replying /\ Advance

Next ==
    \/ EncoderIsr
    \/ ButtonIsr
    \/ Elapse
    \/ AnyCall
    \/ StatusSteps
    \/ BusReply
    \/ Poll

Spec == Init /\ [][Next]_vars

\* the handler of GET_LAST_STATUS holds a drained count in a local
HoldsPresses == pcCmd \in {"drainedButton", "drainedEncoder"}

HoldsDetents == pcCmd = "drainedEncoder"

Serviced(r) == r[1] = GET_LAST_STATUS /\ r[2] = 0 /\ r[3] >= 2

\* C8: the event signal is lowered only by a serviced GET_LAST_STATUS
\* request: the step that lowers it is the first step of processCommand for
\* such a request and changes no counter (the drains come later); every
\* serviced request lowers it there, and as the handler is then past its
\* idle position, it lowers it once.  No other step lowers it.
C8_LoweredOnlyByStatus ==
    [][ /\ (status_pin /\ ~status_pin') =>
              /\ op' = "processCommand"
              /\ Serviced(req')
              /\ pcCmd = "idle"
              /\ pcCmd' = "cleared"
              /\ UNCHANGED <<button_presses, encoder_detents, ret_button,
                             ret_encoder>>
        /\ (op' = "processCommand" /\ Serviced(req')) =>
              (~status_pin' /\ pcCmd' = "cleared")
        /\ (pcCmd # "idle" /\ status_pin) => status_pin'
      ]_vars

\* a serviced request has lowered the signal and has not drained yet, with
\* an event pending
C8_Witness ==
    /\ op = "processCommand"
    /\ pcCmd = "cleared"
    /\ ~status_pin
    /\ button_presses = 1
    /\ encoder_detents = 1

\* an event counted while the handler ran is not in the response and is not
\* pending with the event signal asserted
Lost ==
    \/ owed_presses # button_presses
    \/ owed_detents # encoder_detents
    \/ ((button_presses # 0 \/ encoder_detents # 0) /\ ~status_pin)

C17_SignalsIffCounts ==
    [][/\ op' = "encoder_isr" =>
              IF encoder_detents' # encoder_detents THEN status_pin'
              ELSE status_pin' = status_pin
       /\ op' = "button_isr" =>
              IF button_presses' # button_presses THEN status_pin'
              ELSE status_pin' = status_pin]_vars

\* witness of C17: the status handler found no detent and cleared the pin,
\* and an encoder interrupt has counted a counter-clockwise detent and
\* asserted the pin before the drains
C17_Witness ==
    /\ op = "encoder_isr"
    /\ pcCmd = "cleared"
    /\ snap.d = 0
    /\ button_presses = 0
    /\ encoder_detents = -1
    /\ status_pin

\* a count is pending and the status pin is not asserted
Unsignalled ==
    /\ encoder_detents # 0 \/ button_presses # 0
    /\ ~status_pin

\* C19 (as stated): in every state (the interrupt handlers are single
\* steps, so none is ever mid-execution), whatever the interleaving of
\* interrupts, polls and requests, a nonzero encoder_detents or
\* button_presses implies that the status pin is asserted
C19_PendingIsSignalled == ~Unsignalled

\* C19 (amended): a pending count goes with a cleared pin only while the
\* status handler is between its clear and the return of its second drain,
\* and then the count is one it is about to drain
C19_PendingIsSignalledOutsideDrain ==
    Unsignalled =>
        /\ InWindow
        /\ ~win
        /\ pcCmd = "drainedButton" => button_presses = 0

\* witness of C19: the status handler cleared the pin and drained no press,
\* then a press was counted before the second drain: it is pending and the
\* pin is asserted again
C19_Witness ==
    /\ op = "button_isr"
    /\ pcCmd = "drainedButton"
    /\ win
    /\ ret_button = 0
    /\ button_presses = 1
    /\ status_pin

(***************************************************************************)
(* SpecCmd: the command handler alone, entered with the counters at any   *)
(* value an accumulation of events can leave in them and served without    *)
(* interruption.                                                           *)
(***************************************************************************)
\* the counter values the handler is entered with: every press count beside
\* the detent count -2, every detent count beside the press count 3
CounterValues ==
    {<<p, -2>> : p \in 0..255} \cup {<<3, d>> : d \in -128..127}

\* the hopper readings last stored, by the flag they gave
LastReading(flag) == IF flag THEN <<100, 121>> ELSE <<100, 120>>

InitCmd ==
    /\ prev_reading = 3
    /\ encoder_value = 0
    /\ \E c \in CounterValues :
           /\ button_presses = c[1]
           /\ encoder_detents = c[2]
    /\ previous_state = TRUE
    /\ prev_edge_time = <<0, 0>>
    /\ status_pin = TRUE
    /\ ret_button = 0
    /\ ret_encoder = 0
    /\ hopper_empty \in BOOLEAN
    /\ previous_hopper_empty = hopper_empty
    /\ measurement = LastReading(hopper_empty)
    /\ pcHop = "idle"
    /\ pcCmd = "idle"
    /\ dataout = EmptyBuffer
    /\ result = NoResult
    /\ clock = <<0, 0>>
    /\ op = "init"
    /\ nEnc = 0
    /\ nDrain = 0
    /\ dir = 0
    /\ since = <<0, 0>>
    /\ nTick = 0
    /\ nBtn = 0
    /\ edges = <<>>
    /\ quietEnc = FALSE
    /\ quietBtn = FALSE
    /\ req = NoRequest
    /\ snap = NoSnapshot
    /\ owed_presses = button_presses
    /\ owed_detents = encoder_detents
    /\ win = FALSE
    /\ fresh = button_presses
    /\ delivered = FALSE
    /\ trail = <<>>

\* requests of every kind and every buffer size
AnyRequest == Request(Commands, 0..1, 0..BufLen)

NextCmd == AnyRequest \/ StatusSteps \/ BusReply

SpecCmd == InitCmd /\ [][NextCmd]_vars

\* min(127, p) as the specification writes it
Saturated(p) == IF p > 127 THEN 127 ELSE p

\* d as a two's-complement 8-bit value
TwosComplement(d) == IF d < 0 THEN d + 256 ELSE d

\* C3: for every press count p, detent count d and sensor-empty flag f at
\* the time of the request, a well-formed GET_LAST_STATUS returns COMMAND_OK
\* with exactly 2 bytes, byte 0 being min(127, p) with bit 7 set iff f, byte
\* 1 being d in two's complement, the rest of the buffer untouched; both
\* counters are 0 immediately afterwards.
C3_StatusBytes ==
    (op = "status_respond") =>
        /\ result = cmd_result("COMMAND_OK", 2)
        /\ dataout[1] % 128 = Saturated(snap.p)
        /\ (dataout[1] >= 128) <=> snap.f
        /\ dataout[2] = TwosComplement(snap.d)
        /\ \A i \in 3..BufLen : dataout[i] = EmptyBuffer[i]
        /\ button_presses = 0
        /\ encoder_detents = 0

\* witness of C3: p = 3, d = -2, f set gives [0x83, 0xFE]
C3_Witness ==
    /\ op = "status_respond"
    /\ snap.p = 3
    /\ snap.d = -2
    /\ snap.f
    /\ dataout = <<131, 254, 0, 0>>
    /\ button_presses = 0
    /\ encoder_detents = 0

\* the requests the specification names as rejected for their arguments
Malformed(r) ==
    \/ r[1] = GET_LAST_MEASUREMENT /\ (r[2] # 0 \/ r[3] < 4)
    \/ r[1] = GET_LAST_STATUS /\ (r[2] # 0 \/ r[3] < 2)

Unknown(r) == r[1] \notin {GET_LAST_MEASUREMENT, GET_LAST_STATUS}

\* C9: rejected requests change nothing.  A malformed GET_LAST_MEASUREMENT
\* or GET_LAST_STATUS returns INVALID_ARGUMENTS, any other command code
\* returns COMMAND_NOT_SUPPORTED, and in each case the call returns at once
\* with no byte of the output buffer written and both counters and the
\* event signal unchanged.
C9_RejectedChangesNothing ==
    [][ (op' = "processCommand" /\ (Malformed(req') \/ Unknown(req'))) =>
            /\ Malformed(req') =>
                   result' = cmd_result("INVALID_ARGUMENTS", 0)
            /\ Unknown(req') =>
                   result' = cmd_result("COMMAND_NOT_SUPPORTED", 0)
            /\ pcCmd' = "returned"
            /\ UNCHANGED <<dataout, encoder_detents, button_presses,
                           status_pin>>
      ]_vars

\* GET_LAST_MEASUREMENT with a 1-byte output buffer, events pending and the
\* event signal asserted
C9_Witness ==
    /\ op = "processCommand"
    /\ req = <<GET_LAST_MEASUREMENT, 0, 1>>
    /\ result = cmd_result("INVALID_ARGUMENTS", 0)
    /\ dataout = EmptyBuffer
    /\ button_presses = 3
    /\ encoder_detents = -2
    /\ status_pin

(***************************************************************************)
(* SpecPress: presses accumulate between status reads.  The status handler *)
(* is served without interruption; presses arrive while it is idle, until  *)
(* a response misreports them.                                             *)
(***************************************************************************)
\* the largest number of presses accumulated between two status reads
MaxPresses == 256

PressIsr ==
    /\ pcCmd = "idle"
    /\ owed_presses = fresh
    /\ fresh < MaxPresses
    /\ ButtonEvent(MaxPresses)

StatusRead == Request({GET_LAST_STATUS}, {0}, {2})

InitPress ==
    /\ InitProgram
    /\ InitHist

NextPress ==
    \/ PressIsr
    \/ Advance
    \/ StatusRead
    \/ StatusSteps
    \/ BusReply
    \/ Poll

SpecPress == InitPress /\ [][NextPress]_vars

\* C4: press counts saturate and never wrap.  For any number n of
\* qualifying presses accumulated between two status reads, the press field
\* of the next response is min(127, n) and bit 7 reflects only the
\* sensor-empty flag.
C4_PressSaturation ==
    (op = "status_respond") =>
        /\ PressField(dataout[1]) = Saturated(snap.n)
        /\ (dataout[1] >= 128) <=> snap.f

\* C4 within the counter's range: the same for the numbers of presses the
\* uint8_t counter can hold (n <= 255)
C4_PressSaturationBelowWrap ==
    (op = "status_respond" /\ snap.n <= 255) =>
        /\ PressField(dataout[1]) = Saturated(snap.n)
        /\ (dataout[1] >= 128) <=> snap.f

\* witness of C4: 130 presses report 127, with the sensor-empty flag in bit 7
C4_Witness ==
    /\ op = "status_respond"
    /\ snap.n = 130
    /\ snap.f
    /\ dataout[1] = 255

(***************************************************************************)
(* SpecClean: the encoder is turned through clean full cycles in one       *)
(* direction, starting at rest, and the detent counter is then drained     *)
(* twice.                                                                  *)
(***************************************************************************)
\* the reading that follows r in a clean cycle: 3->1->0->2->3 clockwise
\* (A goes low first), 3->2->0->1->3 counter-clockwise
CleanSuccessor(r, d) ==
    IF d = 1
    THEN CASE r = 3 -> 1 [] r = 1 -> 0 [] r = 0 -> 2 [] r = 2 -> 3
    ELSE CASE r = 3 -> 2 [] r = 2 -> 0 [] r = 0 -> 1 [] r = 1 -> 3

InitClean ==
    /\ InitProgram
    /\ op = "init"
    /\ nEnc = 0
    /\ nDrain = 0
    /\ dir \in {1, -1}
    /\ since = <<0, 0>>
    /\ nTick = 0
    /\ nBtn = 0
    /\ edges = <<>>
    /\ quietEnc = FALSE
    /\ quietBtn = FALSE
    /\ req = NoRequest
    /\ snap = NoSnapshot
    /\ owed_presses = 0
    /\ owed_detents = 0
    /\ win = FALSE
    /\ fresh = 0
    /\ delivered = FALSE
    /\ trail = <<>>

CleanEdge ==
    /\ nDrain = 0
    /\ nEnc < 4 * MaxCycles
    /\ LET r == CleanSuccessor(prev_reading, dir)
       IN  encoder_isr(r \div 2, r % 2)
    /\ op' = "encoder_isr"
    /\ nEnc' = nEnc + 1
    /\ UNCHANGED <<btnVars, ret_button, ret_encoder, hopVars, cmdVars, clock,
                   nDrain, dir, btnHist, quiet, reqHist, owed>>
    /\ UNCHANGED late

CleanDrain ==
    /\ nDrain < 2
    /\ process_encoder
    /\ op' = "process_encoder"
    /\ nDrain' = nDrain + 1
    /\ UNCHANGED <<prev_reading, encoder_value, btnVars, status_pin,
                   ret_button, hopVars, cmdVars, clock, nEnc, dir, btnHist,
                   quiet, reqHist, owed>>
    /\ UNCHANGED late

NextCleanStep == CleanEdge \/ CleanDrain

SpecClean == InitClean /\ [][NextCleanStep]_vars

\* full cycles completed so far in SpecClean
CleanCycles == nEnc \div 4

\* the drains of SpecClean were made after a whole number of cycles
AfterFullCycles == nEnc % 4 = 0

\* C1 (as stated): after n full clean cycles from rest the first drain
\* returns n (clockwise) or -n (counter-clockwise) for every n, the
\* accumulated value is 0, and a second drain returns 0.
C1_DrainReturnsCycles ==
    /\ (nDrain = 1 /\ AfterFullCycles) =>
           /\ ret_encoder = dir * CleanCycles
           /\ encoder_value = 0
    /\ (nDrain = 2 /\ AfterFullCycles) => ret_encoder = 0

\* the net count n * dir is a value of the int8_t counter
FitsInt8(x) == -128 <= x /\ x <= 127

\* C1 within the counter's range: the same for every n whose net count
\* fits the int8_t counter (n <= 127 clockwise, n <= 128 counter-clockwise).
C1_DrainReturnsCyclesInRange ==
    /\ (nDrain = 1 /\ AfterFullCycles /\ FitsInt8(dir * CleanCycles)) =>
           /\ ret_encoder = dir * CleanCycles
           /\ encoder_value = 0
           /\ encoder_detents = 0
    /\ (nDrain = 2 /\ AfterFullCycles /\ FitsInt8(dir * CleanCycles)) =>
           /\ ret_encoder = 0
           /\ encoder_value = 0

(***************************************************************************)
(* SpecButton: the button line changes (or the interrupt fires without a   *)
(* change) while time passes; process_button() drains the counter.         *)
(***************************************************************************)
TickButton == Tick(Gaps)

NextButton == TickButton \/ ButtonInterrupt

SpecButton == Init /\ [][NextButton]_vars

\* C6 (as stated): of two consecutive button edges less than 5000 us
\* apart the second is never counted, and an edge more than 5000 us after
\* the edge before it is counted if it is a falling edge.
C6_DebounceSuppression ==
    \A i \in 2..Len(edges) :
        /\ TrueLt(edges[i].gap, DEBOUNCE_TIME_US) => ~edges[i].counted
        /\ (TrueGt(edges[i].gap, DEBOUNCE_TIME_US) /\ edges[i].falling)
              => edges[i].counted

\* C6 below the clock's period: the same, where the later edge arrives
\* more than 5000 us and less than 2^32 us after the edge before it.
C6_DebounceSuppressionBelowWrap ==
    \A i \in 2..Len(edges) :
        /\ TrueLt(edges[i].gap, DEBOUNCE_TIME_US) => ~edges[i].counted
        /\ (/\ TrueGt(edges[i].gap, DEBOUNCE_TIME_US)
            /\ Below32(edges[i].gap)
            /\ edges[i].falling)
              => edges[i].counted

\* witness of C6: a second edge was suppressed within the window, and the
\* third edge, a falling one more than 5000 us later, was counted
C6_Witness ==
    /\ Len(edges) >= 3
    /\ TrueLt(edges[2].gap, DEBOUNCE_TIME_US)
    /\ ~edges[2].counted
    /\ TrueGt(edges[3].gap, DEBOUNCE_TIME_US)
    /\ edges[3].falling
    /\ edges[3].counted

\* C11: the debounce comparison is correct across clock wraparound.  For
\* two consecutive level-changing edges whose real separation d is below
\* 2^32 us, (now - prev_edge_time) on uint32_t equals d whatever the clock
\* values are, also when the clock wrapped in between; the later edge is
\* counted if it is falling and d > 5000, and is not counted if d <= 5000.
C11_WrapSafeDebounce ==
    \A i \in 2..Len(edges) :
        Below32(edges[i].gap) =>
            /\ Sub32(edges[i].now, edges[i].last) = edges[i].gap
            /\ (edges[i].falling /\ TrueGt(edges[i].gap, DEBOUNCE_TIME_US))
                   => edges[i].counted
            /\ ~TrueGt(edges[i].gap, DEBOUNCE_TIME_US) => ~edges[i].counted

\* witness of C11: the clock wrapped between a rising edge and the falling
\* edge 5001 us after it, which was counted
C11_Witness ==
    \E i \in 2..Len(edges) :
        /\ Lt32(edges[i].now, edges[i].last)
        /\ edges[i].falling
        /\ edges[i].gap = <<0, 5001>>
        /\ edges[i].counted

\* the button interrupt being served read a level other than the recorded
\* one
LevelChanged == Len(edges') = Len(edges) + 1

\* the press counter went up by one
PressCounted == button_presses' = ToUint8(button_presses + 1)

\* C14 as stated: a button interrupt increments the press counter if and
\* only if the level read differs from the recorded level, the recorded
\* level was high and the time since the preceding level change is
\* strictly greater than 5000 us; every level change, counted or not, sets
\* prev_edge_time to now and toggles the recorded level.
C14_CountsIffQualifying ==
    [][ (op' = "button_isr" /\ Len(edges) >= 1) =>
            /\ PressCounted <=>
                   (LevelChanged /\ previous_state
                      /\ TrueGt(since, DEBOUNCE_TIME_US))
            /\ ~PressCounted => UNCHANGED button_presses
            /\ LevelChanged =>
                   /\ prev_edge_time' = clock
                   /\ previous_state' = ~previous_state
      ]_vars

\* C14 below the clock's period: the same, the time since the preceding
\* level change being less than 2^32 us.
C14_CountsIffQualifyingBelowWrap ==
    [][ (op' = "button_isr" /\ Len(edges) >= 1 /\ Below32(since)) =>
            /\ PressCounted <=>
                   (LevelChanged /\ previous_state
                      /\ TrueGt(since, DEBOUNCE_TIME_US))
            /\ ~PressCounted => UNCHANGED button_presses
            /\ LevelChanged =>
                   /\ prev_edge_time' = clock
                   /\ previous_state' = ~previous_state
      ]_vars

\* witness of C14: a falling edge exactly 5000 us after the rising edge
\* before it was not counted; it set prev_edge_time and toggled the level
C14_Witness ==
    /\ op = "button_isr"
    /\ Len(edges) >= 2
    /\ edges[Len(edges)].gap = <<0, DEBOUNCE_TIME_US>>
    /\ edges[Len(edges)].falling
    /\ ~edges[Len(edges)].counted
    /\ since = <<0, 0>>
    /\ prev_edge_time = clock
    /\ ~previous_state

\* the button interrupt being served sees the first level change since
\* start-up
FirstEdge == LevelChanged /\ Len(edges) = 0

\* C21: prev_edge_time starts at 0 and previous_state starts high, so the
\* first level change after start-up is a falling edge, and it is counted
\* if and only if micros() reads more than 5000 at that edge; one at a
\* clock value of 5000 or less is not counted and does not change the
\* status pin, and in either case prev_edge_time becomes the clock value
\* and previous_state becomes low
C21_FirstPressNeedsClockAbove ==
    [][FirstEdge =>
           /\ previous_state
           /\ prev_edge_time = <<0, 0>>
           /\ PressCounted <=> Gt32(clock, DEBOUNCE_TIME_US)
           /\ status_pin' <=> Gt32(clock, DEBOUNCE_TIME_US)
           /\ ~Gt32(clock, DEBOUNCE_TIME_US) => UNCHANGED button_presses
           /\ prev_edge_time' = clock
           /\ ~previous_state'
      ]_vars

\* witness of C21: the first press came when micros() read exactly 5000;
\* it was not counted and the pin stayed low, but the time and the level
\* were recorded
C21_Witness ==
    /\ op = "button_isr"
    /\ Len(edges) = 1
    /\ edges[1].now = <<0, DEBOUNCE_TIME_US>>
    /\ edges[1].falling
    /\ ~edges[1].counted
    /\ button_presses = 0
    /\ ~status_pin
    /\ prev_edge_time = <<0, DEBOUNCE_TIME_US>>
    /\ ~previous_state

(***************************************************************************)
(* SpecDecoder: the ButtonEncoder class on its own.  Both interrupt        *)
(* handlers run on arbitrary pin levels and both drains are called at      *)
(* arbitrary moments.                                                      *)
(***************************************************************************)
EncoderTurn == EncoderInterrupt(MaxUndrained)

ButtonPush == ButtonEvent(MaxUndrained)

NextDecoder ==
    \/ EncoderTurn
    \/ ButtonPush
    \/ Advance
    \/ DrainEncoder
    \/ DrainButton

SpecDecoder == Init /\ [][NextDecoder]_vars

\* C5: each drain returns the pending count and resets it; a drain that
\* follows a drain of the same counter with no interrupt of that counter
\* in between returns 0; a drain changes neither the other counter nor
\* the decoder and debounce state.
C5_DrainReadAndReset ==
    [][/\ op' = "process_encoder" =>
            /\ ret_encoder' = encoder_detents
            /\ encoder_detents' = 0
            /\ quietEnc => ret_encoder' = 0
            /\ UNCHANGED <<prev_reading, encoder_value, btnVars>>
       /\ op' = "process_button" =>
            /\ ret_button' = button_presses
            /\ button_presses' = 0
            /\ quietBtn => ret_button' = 0
            /\ UNCHANGED <<encVars, previous_state, prev_edge_time>>
      ]_vars

\* witness of C5: a second drain of the detents returned 0 with no encoder
\* interrupt since the first, a press pending and the decoder off rest
C5_Witness ==
    /\ op = "process_encoder"
    /\ quietEnc
    /\ ret_encoder = 0
    /\ button_presses = 1
    /\ encoder_value # 0

\* C7: an encoder interrupt changes the detent counter only when the new
\* reading is the rest position 3, the value before normalisation is then
\* exactly 4 or -4 and the accumulated value after it exactly 0.
C7_DetentOnlyAtRest ==
    [][(op' = "encoder_isr" /\ encoder_detents' # encoder_detents) =>
            /\ prev_reading' = 3
            /\ encoder_value' = 0
            /\ EncoderSum(prev_reading') \in {4, -4}
      ]_vars

\* witness of C7: a counter-clockwise detent was counted after a drain
\* had returned a clockwise one
C7_Witness ==
    /\ op = "encoder_isr"
    /\ ret_encoder = 1
    /\ encoder_detents = -1
    /\ prev_reading = 3
    /\ encoder_value = 0

\* the normalisation as the specification writes it: while the value is at
\* least 4, count a detent up and take 4 off; while it is at most -4, count
\* a detent down and add 4
RECURSIVE LoopNormalise(_, _)
LoopNormalise(v, d) ==
    IF v >= 4 THEN LoopNormalise(v - 4, d + 1)
    ELSE IF v <= -4 THEN LoopNormalise(v + 4, d - 1)
    ELSE <<v, d>>

\* C12: after every completed encoder interrupt, whatever the sequence of
\* readings, the accumulated value is above -4 and below 4; the handler's
\* single conditional step of +/-4 leaves the accumulated value and the
\* detent counter the loops of the specification would leave.
C12_SingleStepNormalises ==
    [][ op' = "encoder_isr" =>
            /\ -4 < encoder_value'
            /\ encoder_value' < 4
            /\ <<encoder_value', encoder_detents'>> =
                   LoopNormalise(EncoderSum(prev_reading'), encoder_detents)
      ]_vars

\* witness of C12: an invalid transition has left the accumulated value at
\* -3, with a detent counted before
C12_Witness ==
    /\ op = "encoder_isr"
    /\ encoder_value = -3
    /\ encoder_detents = 1

\* the phase of a reading within the detent cycle 3 -> 1 -> 0 -> 2 -> 3
Phase(r) == CASE r = 3 -> 0 [] r = 1 -> 1 [] r = 0 -> 2 [] r = 2 -> 3

\* C13: after every completed encoder interrupt, whatever the readings
\* (invalid transitions and a first reading other than the assumed 3
\* included), the accumulated value is congruent modulo 4 to the phase of
\* the stored previous reading; it is 0 exactly when that reading is the
\* rest position 3.
C13_ValueTracksPhase ==
    /\ (encoder_value - Phase(prev_reading)) % 4 = 0
    /\ (encoder_value = 0) <=> (prev_reading = 3)

\* witness of C13: the first interrupt after start-up read both lines low,
\* an invalid transition from the assumed rest position
C13_Witness ==
    /\ op = "encoder_isr"
    /\ prev_reading = 0
    /\ encoder_value = -2
    /\ encoder_detents = 0
    /\ owed_detents = 0
    /\ ~status_pin

\* C16: each counter has one writer among the interrupt handlers.  The
\* encoder interrupt never changes button_presses, previous_state or
\* prev_edge_time; the button interrupt never changes encoder_detents,
\* prev_reading or encoder_value; and a button interrupt that reads the
\* recorded level (previous_state stays as it was) changes none of
\* button_presses, previous_state, prev_edge_time and the status pin
C16_SingleWriter ==
    [][/\ op' = "encoder_isr" => UNCHANGED btnVars
       /\ op' = "button_isr" =>
              /\ UNCHANGED encVars
              /\ previous_state' = previous_state =>
                     UNCHANGED <<btnVars, status_pin>>]_vars

\* witness of C16: after a detent was counted and time had passed, a button
\* interrupt read the level recorded at start-up and left the button state
\* and the decoder as they were
C16_Witness ==
    /\ op = "button_isr"
    /\ previous_state
    /\ prev_edge_time = <<0, 0>>
    /\ clock = HalfPeriod
    /\ button_presses = 0
    /\ encoder_detents = 1
    /\ status_pin

(***************************************************************************)
(* SpecGlitch: the decoder alone, never drained, so that encoder_detents   *)
(* is the net number of detents emitted.  Every encoder interrupt notes    *)
(* the stored reading and the tracked position it found.                   *)
(***************************************************************************)
\* the tracked position: 4 x net detents emitted + accumulated value
Position == 4 * encoder_detents + encoder_value

\* (int8_t)pgm_read_byte(&table[(a << 2) | b]): the delta of the step a -> b
Delta(a, b) == ToInt8(pgm_read_byte(BitOr(a * 4, b)))

\* the decoder state an encoder interrupt finds
Found == [r |-> prev_reading, d |-> encoder_detents, pos |-> Position]

\* an encoder interrupt on arbitrary pin levels, noted in the trail
GlitchStep ==
    /\ -MaxUndrained < encoder_detents
    /\ encoder_detents < MaxUndrained
    /\ \E pina \in 0..1, pinb \in 0..1 :
           /\ encoder_isr(pina, pinb)
           /\ owed_detents' = owed_detents + DetentStep(Reading(pina, pinb))
    /\ trail' = IF Len(trail) = 2 THEN <<trail[2], Found>>
                ELSE Append(trail, Found)
    /\ op' = "encoder_isr"
    /\ quietEnc' = FALSE
    /\ UNCHANGED <<btnVars, ret_button, ret_encoder, hopVars, cmdVars, clock,
                   encHist, btnHist, quietBtn, reqHist, owed_presses, win,
                   fresh, delivered>>

NextGlitch == GlitchStep

SpecGlitch == Init /\ [][NextGlitch]_vars

\* the last two interrupts were a step away from a reading and back to it
GlitchReturned ==
    /\ Len(trail) = 2
    /\ trail[1].r = prev_reading

\* C15: the table is antisymmetric, the delta of a -> b being the negative
\* of the delta of b -> a for all readings a and b; and after a glitch from
\* a reading to any other reading and back, the tracked position
\* (4 x net detents emitted + accumulated value) is what it was before
C15_GlitchCancels ==
    /\ \A a \in 0..3, b \in 0..3 : Delta(a, b) = -Delta(b, a)
    /\ GlitchReturned => Position = trail[1].pos

\* witness of C15: from reading 0, half a detent on, an invalid step to the
\* rest position 3 crossed the detent boundary and was counted, and the
\* step back to 0 left the count but took the value to minus a half
C15_Witness ==
    /\ GlitchReturned
    /\ trail[1].r = 0
    /\ trail[1].pos = 4 * trail[1].d + 2
    /\ trail[2].r = 3
    /\ trail[2].d = trail[1].d + 1
    /\ encoder_detents = trail[1].d + 1
    /\ encoder_value = -2

(***************************************************************************)
(* SpecFlag: the hopper poll, the encoder interrupt and the command        *)
(* handler interleave, and the flag of each status response is noted.      *)
(* A request is handled inside the I2C interrupt, so it runs to its reply  *)
(* between any two steps of measure_hopper.                                *)
(***************************************************************************)
FlagSteps == StatusDrainButton \/ StatusDrainEncoder \/ StatusRespondNoted

NextFlag == Poll \/ EncoderIsr \/ AnyCall \/ FlagSteps \/ BusReply

SpecFlag == Init /\ [][NextFlag]_vars

\* measure_hopper asserts the pin only in the branch taken when the new
\* hopper_empty differs from previous_hopper_empty
SignalsOnlyChange ==
    op' = "measure_hopper" =>
        /\ status_pin' # status_pin => pcHop = "changed"
        /\ pcHop' = "changed" <=>
               (pcHop = "classified" /\ hopper_empty # previous_hopper_empty)

\* measure_hopper is not running, the pin is cleared, and the flag differs
\* from the one the host was given last
FlagLost ==
    /\ pcHop = "idle"
    /\ ~status_pin
    /\ hopper_empty # delivered

\* the status handler has cleared the pin and has not yet written its
\* response
Responding == pcCmd \in {"cleared", "drainedButton", "drainedEncoder"}

\* C20 (as stated): measure_hopper asserts the status pin only when the
\* hopper_empty it computed differs from the previously measured value, and
\* whenever measure_hopper is not running and the pin is cleared,
\* hopper_empty is the flag the most recent status response carried (false
\* if there was none)
C20_FlagNeverLost == [](~FlagLost) /\ [][SignalsOnlyChange]_vars

\* C20 (amended): the same, except while the status handler is between its
\* clear of the pin and its response, which will carry hopper_empty
C20_FlagNeverLostOnceResponded ==
    [](FlagLost => Responding) /\ [][SignalsOnlyChange]_vars

\* witness of C20: the flag became set, measure_hopper signalled it, and a
\* status response has carried it to the host and cleared the pin
C20_Witness ==
    /\ op = "reply"
    /\ pcHop = "idle"
    /\ pcCmd = "idle"
    /\ ~status_pin
    /\ hopper_empty
    /\ previous_hopper_empty
    /\ delivered

(***************************************************************************)
(* SpecLive: the firmware with a host that answers the status pin.         *)
(* Encoder edges, button edges and changes of the sensor reading occur     *)
(* only before the clock has advanced MaxTicks times; after that the       *)
(* sensor keeps giving the reading it gave last.  The host sends a         *)
(* well-formed GET_LAST_STATUS while the pin is asserted.  The request is  *)
(* handled inside the I2C interrupt, where the AVR serves no other         *)
(* interrupt.                                                              *)
(*                                                                         *)
(* Fairness: time passes; loop() calls measure_hopper again and again and  *)
(* each call runs to its end; processCommand, once entered, runs to its    *)
(* return and the bus layer sends the reply; the host does not ignore an   *)
(* asserted pin for ever.                                                  *)
(***************************************************************************)
EventsPossible == nTick < MaxTicks

LiveTick == Tick({HalfPeriod})

\* a pin change interrupt raised while a request is handled is served when
\* the I2C interrupt has returned (Main.cpp:62)
LiveEncoder ==
    /\ EventsPossible
    /\ pcCmd = "idle"
    /\ EncoderInterrupt(MaxPending)

LiveButton ==
    /\ EventsPossible
    /\ pcCmd = "idle"
    /\ ButtonEvent(MaxPending)

LivePoll ==
    HopperStep(IF EventsPossible THEN AdcReadings ELSE {measurement})

HostStatus == status_pin /\ Request({GET_LAST_STATUS}, {0}, {BufLen})

NextLive ==
    \/ LiveTick
    \/ LiveEncoder
    \/ LiveButton
    \/ LivePoll
    \/ HostStatus
    \/ FlagSteps
    \/ BusReply

SpecLive ==
    /\ Init
    /\ [][NextLive]_vars
    /\ WF_vars(LiveTick)
    /\ WF_vars(LivePoll)
    /\ WF_vars(HostStatus)
    /\ WF_vars(FlagSteps)
    /\ WF_vars(BusReply)

\* the status pin is cleared and both counters are 0
Settled ==
    /\ ~status_pin
    /\ encoder_detents = 0
    /\ button_presses = 0

\* C18: when the host sends GET_LAST_STATUS whenever the status pin is
\* asserted, and encoder edges, button edges and changes of the sensor flag
\* eventually stop, then eventually the pin is cleared and stays cleared,
\* with encoder_detents and button_presses both 0
C18_EventuallySettled == <>[]Settled

\* witness of C18: after the last event the host's request found a press
\* and a detent pending and a set flag, drained them and left the pin
\* cleared
C18_Witness ==
    /\ ~EventsPossible
    /\ op = "status_respond"
    /\ snap.p = 1
    /\ snap.d = 1
    /\ snap.f
    /\ delivered
    /\ Settled

\* witness of C1: 127 clockwise cycles were drained, and drained again
C1_Witness ==
    /\ nDrain = 2
    /\ dir = 1
    /\ CleanCycles = 127
    /\ AfterFullCycles
====
